---- MODULE Spec2Model ----
(***************************************************************************)
(* Order engine of the e-commerce backend (app/crud.py, app/routers).      *)
(*                                                                         *)
(* The relational store is modelled by its committed rows (products,       *)
(* orders, order_items).  Every request owns one SQLAlchemy session        *)
(* (app/database.py get_db); the store is PostgreSQL (app/config.py), so   *)
(* a statement reads the rows committed so far and the rows a session has  *)
(* flushed become visible to the other sessions when it commits; of two    *)
(* sessions that write the same row the later commit wins.                 *)
(* delete_product is left out: no property here is about deleted rows.     *)
(*                                                                         *)
(* The coupon ledger (coupons, coupon_usages) and the design votes         *)
(* (designs, design_votes) are further tables of the same store; the       *)
(* schema's foreign keys and the unique index on coupon_codes.code are     *)
(* enforced by the store.  now is the clock datetime.utcnow() reads.       *)
(*                                                                         *)
(* reviews, payment_proofs and users are further tables; reply is the      *)
(* response of the last request that was served in one step.               *)
(*                                                                         *)
(* An optional value is a sequence: <<>> is None / NULL, <<v>> is v.       *)
(* Prices are whole currency units; the float arithmetic of the code is    *)
(* exact on them.                                                          *)
(***************************************************************************)
EXTENDS Integers, Sequences, FiniteSets, TLC

VARIABLES products, orders, order_items, req,
          coupons, coupon_usages, now, designs, design_votes, call,
          reviews, payment_proofs, users, reply

\* The tables of the order engine and the request of each process.
order_vars == <<products, orders, order_items, req>>

\* The coupon ledger, the clock, the design votes and the call of each process.
ledger_vars == <<coupons, coupon_usages, now, designs, design_votes, call>>

\* The reviews, the payment proofs of the orders and the user accounts.
account_vars == <<reviews, payment_proofs, users>>

\* reply is the response of the last request that was served in one step.
vars == <<order_vars, ledger_vars, account_vars, reply>>

(***************************************************************************)
(* Bounds of the model.                                                    *)
(***************************************************************************)
MaxProducts == 2
MaxOrders == 1
MaxLines == 2
MaxStrLen == 3

Procs == {1, 2}
UserIds == {1}
Prices == {2, 3}
Discounts == {<<>>, <<0>>, <<1>>}
StockInputs == {1, 2}
Quantities == {1, 2}
ProductIds == 1..MaxProducts

None == <<>>

(***************************************************************************)
(* Small helpers on sequences.                                             *)
(***************************************************************************)
SeqsUpTo(S, n) == UNION {[1..k -> S] : k \in 0..n}

RECURSIVE SumSeq(_)
SumSeq(s) == IF s = <<>> THEN 0 ELSE s[1] + SumSeq(Tail(s))

Min(S) == CHOOSE x \in S : \A y \in S : x <= y
Max(S) == CHOOSE x \in S : \A y \in S : y <= x

(***************************************************************************)
(* Guest cart encoding: str.split(','), str.strip() and int() as           *)
(* create_guest_order uses them.  A string is a sequence of characters.    *)
(***************************************************************************)
Alphabet == {"1", "2", ",", " ", "-"}
Digits == {"1", "2"}

DigitVal(c) == IF c = "1" THEN 1 ELSE 2

\* s.split(','): the segments between the commas, empty ones included.
RECURSIVE Split(_)
Split(s) ==
    IF \A k \in 1..Len(s) : s[k] # ","
    THEN <<s>>
    ELSE LET k == Min({j \in 1..Len(s) : s[j] = ","})
         IN  <<SubSeq(s, 1, k - 1)>> \o Split(SubSeq(s, k + 1, Len(s)))

\* t.strip(): leading and trailing whitespace removed.
RECURSIVE LStrip(_)
LStrip(t) == IF t # <<>> /\ Head(t) = " " THEN LStrip(Tail(t)) ELSE t

RECURSIVE RStrip(_)
RStrip(t) ==
    IF t # <<>> /\ t[Len(t)] = " " THEN RStrip(SubSeq(t, 1, Len(t) - 1)) ELSE t

Strip(t) == RStrip(LStrip(t))

\* int(t) raises ValueError unless t is an optional sign and decimal digits.
Unsigned(t) == IF t # <<>> /\ Head(t) = "-" THEN Tail(t) ELSE t

IsIntLiteral(t) ==
    /\ Unsigned(t) # <<>>
    /\ \A k \in 1..Len(Unsigned(t)) : Unsigned(t)[k] \in Digits

RECURSIVE DecimalValue(_)
DecimalValue(t) ==
    IF t = <<>> THEN 0
    ELSE 10 * DecimalValue(SubSeq(t, 1, Len(t) - 1)) + DigitVal(t[Len(t)])

IntOf(t) ==
    IF t # <<>> /\ Head(t) = "-" THEN 0 - DecimalValue(Tail(t)) ELSE DecimalValue(t)

\* [int(x.strip()) for x in s.split(',')]: <<>> stands for the ValueError,
\* <<list>> for the list.
ParseIntList(s) ==
    LET toks == Split(s)
    IN  IF \E k \in 1..Len(toks) : ~IsIntLiteral(Strip(toks[k]))
        THEN None
        ELSE <<[k \in 1..Len(toks) |-> IntOf(Strip(toks[k]))]>>

\* A parse without the length check: zip() pairs up to the shorter list.
ParseGuestCartZip(product_ids, quantities) ==
    LET product_id_list == ParseIntList(product_ids)
        quantity_list == ParseIntList(quantities)
    IN  IF product_id_list = None \/ quantity_list = None
        THEN None
        ELSE <<[k \in 1..Min({Len(product_id_list[1]), Len(quantity_list[1])}) |->
                  [product_id |-> product_id_list[1][k],
                   quantity |-> quantity_list[1][k]]]>>

\* The try block of create_guest_order: the cart lines, or the ValueError
\* ("Invalid product IDs or quantities format").
ParseGuestCart(product_ids, quantities) ==
    LET product_id_list == ParseIntList(product_ids)
        quantity_list == ParseIntList(quantities)
    IN  IF product_id_list = None \/ quantity_list = None
        THEN None
        ELSE IF Len(product_id_list[1]) # Len(quantity_list[1])
        THEN None
        ELSE <<[k \in 1..Len(product_id_list[1]) |->
                  [product_id |-> product_id_list[1][k],
                   quantity |-> quantity_list[1][k]]]>>

(***************************************************************************)
(* Pricing of a cart line.                                                 *)
(***************************************************************************)
\* Python truth value of an Optional[float].
Truthy(x) == x # None /\ x[1] # 0

\* unit_price = product.discount_price if product.discount_price
\*              else product.original_price
UnitPrice(product) ==
    IF Truthy(product.discount_price)
    THEN product.discount_price[1]
    ELSE product.original_price

(***************************************************************************)
(* The session of a request: the products it has loaded (identity map).    *)
(* A product already loaded is not read again; commit() expires the map.   *)
(***************************************************************************)
NoSession == [x \in {} |-> 0]

get_product_by_id(sess, pid) ==
    IF pid \in DOMAIN sess THEN <<sess[pid]>>
    ELSE IF pid \in DOMAIN products THEN <<products[pid]>>
    ELSE None

Loaded(sess, pid) ==
    IF pid \in DOMAIN sess \/ pid \notin DOMAIN products
    THEN sess
    ELSE [x \in DOMAIN sess \cup {pid} |->
            IF x = pid THEN products[pid] ELSE sess[x]]

Snapshot == [products |-> products, orders |-> orders, order_items |-> order_items]

EmptyDb == [products |-> <<>>, orders |-> <<>>, order_items |-> <<>>]

IdleReq ==
    [pc |-> "idle", op |-> "none", user_id |-> None,
     product_ids |-> <<>>, quantities |-> <<>>,
     cart |-> <<>>, i |-> 1, items |-> <<>>, total_amount |-> 0,
     order_id |-> 0, sess |-> NoSession, pending |-> <<>>,
     result |-> "none", pre |-> EmptyDb]

\* The coupon ledger, the votes and the reviews as a call sees them when it
\* starts.
Ledger ==
    [coupons |-> coupons, coupon_usages |-> coupon_usages,
     designs |-> designs, design_votes |-> design_votes,
     reviews |-> reviews]

EmptyLedger ==
    [coupons |-> <<>>, coupon_usages |-> <<>>,
     designs |-> <<>>, design_votes |-> <<>>,
     reviews |-> <<>>]

\* A process outside the order engine: the arguments of its call, the row
\* its session has read (seen), what it returns, and the ledger at its start.
IdleCall ==
    [pc |-> "idle", op |-> "none",
     code |-> 0, user_id |-> 0, discount_percentage |-> 0, max_uses |-> 0,
     expires_at |-> None, coupon_id |-> 0, order_id |-> 0,
     discount_amount |-> 0, design_id |-> 0, vote_type |-> "none",
     product_id |-> 0,
     seen |-> None, result |-> "none", response |-> None,
     at |-> 0, pre |-> EmptyLedger]

\* The response of a request: the endpoint, the arguments it was called
\* with, the HTTP status and the body (the error detail, the rows returned,
\* or the token forgot_password hands out).
NoReply == [op |-> "none", args |-> <<>>, status_code |-> 0, body |-> <<>>]

Init ==
    /\ products = <<>>
    /\ orders = <<>>
    /\ order_items = <<>>
    /\ req = [p \in Procs |-> IdleReq]
    /\ coupons = <<>>
    /\ coupon_usages = <<>>
    /\ now = 0
    /\ designs = <<>>
    /\ design_votes = <<>>
    /\ call = [p \in Procs |-> IdleCall]
    /\ reviews = <<>>
    /\ payment_proofs = <<>>
    /\ users = <<>>
    /\ reply = NoReply

AllIdle == \A p \in Procs : req[p].pc = "idle"

InFlight == Cardinality({p \in Procs : req[p].pc = "validate"})

(***************************************************************************)
(* Catalog operations.  Each is one session with one commit.               *)
(***************************************************************************)
\* POST /products: no field of ProductCreate is range-checked.
create_product(original_price, discount_price, stock_quantity) ==
    /\ Len(products) < MaxProducts
    /\ products' = Append(products,
                     [original_price |-> original_price,
                      discount_price |-> discount_price,
                      stock_quantity |-> stock_quantity])
    /\ UNCHANGED <<account_vars, reply, ledger_vars, orders, order_items, req>>

\* PUT /products/{id}: 404 for an absent product, 400 when every field is
\* None; update_product then sets the fields that are not None.
ProductUpdates ==
    [original_price : {None} \cup {<<x>> : x \in Prices},
     discount_price : Discounts,
     stock_quantity : {None} \cup {<<x>> : x \in StockInputs}]

UpdatedProduct(product, product_update) ==
    [original_price |->
       IF product_update.original_price # None
       THEN product_update.original_price[1] ELSE product.original_price,
     discount_price |->
       IF product_update.discount_price # None
       THEN product_update.discount_price ELSE product.discount_price,
     stock_quantity |->
       IF product_update.stock_quantity # None
       THEN product_update.stock_quantity[1] ELSE product.stock_quantity]

\* An update that also re-prices the order lines of the product.
update_product_reprice(product_id, product_update) ==
    /\ product_id \in DOMAIN products
    /\ \E f \in DOMAIN product_update : product_update[f] # None
    /\ products' = [products EXCEPT ![product_id] =
                      UpdatedProduct(@, product_update)]
    /\ order_items' = [k \in DOMAIN order_items |->
         IF order_items[k].product_id = product_id
         THEN [order_items[k] EXCEPT
                 !.unit_price = UnitPrice(products'[product_id]),
                 !.total_price = UnitPrice(products'[product_id])
                                   * order_items[k].quantity]
         ELSE order_items[k]]
    /\ UNCHANGED <<account_vars, reply, ledger_vars, orders, req>>

update_product(product_id, product_update) ==
    /\ product_id \in DOMAIN products
    /\ \E f \in DOMAIN product_update : product_update[f] # None
    /\ products' = [products EXCEPT ![product_id] =
                      UpdatedProduct(@, product_update)]
    /\ UNCHANGED <<account_vars, reply, ledger_vars, orders, order_items, req>>

\* PUT /products/{id}/stock: 404 for an absent product, 400 for a negative
\* quantity.
update_product_stock(product_id, new_quantity) ==
    /\ product_id \in DOMAIN products
    /\ new_quantity >= 0
    /\ products' = [products EXCEPT ![product_id].stock_quantity = new_quantity]
    /\ UNCHANGED <<account_vars, reply, ledger_vars, orders, order_items, req>>

(***************************************************************************)
(* Order creation, statement by statement.  create_order and               *)
(* create_guest_order share every step after the guest cart is parsed.     *)
(***************************************************************************)
Finished(r, result) ==
    [IdleReq EXCEPT !.pc = "done", !.op = r.op, !.user_id = r.user_id,
                    !.product_ids = r.product_ids, !.quantities = r.quantities,
                    !.cart = r.cart, !.order_id = r.order_id,
                    !.result = result, !.pre = r.pre]

\* POST /orders: create_order is entered with the caller's cart.
create_order_begin(p, user_id, cart) ==
    /\ req[p].pc = "idle"
    /\ req' = [req EXCEPT ![p] =
         [IdleReq EXCEPT !.pc = "validate", !.op = "create_order",
                         !.user_id = <<user_id>>, !.cart = cart,
                         !.pre = Snapshot]]
    /\ UNCHANGED <<account_vars, reply, ledger_vars, products, orders, order_items>>

\* POST /orders/guest: create_guest_order parses the two strings first.
create_guest_order_begin(p, product_ids, quantities) ==
    /\ req[p].pc = "idle"
    /\ LET parsed == ParseGuestCart(product_ids, quantities)
           r == [IdleReq EXCEPT !.op = "create_guest_order",
                                !.product_ids = product_ids,
                                !.quantities = quantities,
                                !.pre = Snapshot]
       IN  req' = [req EXCEPT ![p] =
             IF parsed = None
             THEN Finished(r, "invalid_format")
             ELSE [r EXCEPT !.pc = "validate", !.cart = parsed[1]]]
    /\ UNCHANGED <<account_vars, reply, ledger_vars, products, orders, order_items>>

\* if product.stock_quantity < item.quantity
InsufficientStockOffByOne(product, item) ==
    product.stock_quantity + 1 < item.quantity

InsufficientStock(product, item) == product.stock_quantity < item.quantity

\* One pass of the first loop: look the product up, check the stock, price
\* the line.  Nothing is written to the store.
ValidatedLine(r) ==
    LET item == r.cart[r.i]
        found == get_product_by_id(r.sess, item.product_id)
    IN  IF found = None
        THEN Finished(r, "not_found")
        ELSE IF InsufficientStock(found[1], item)
        THEN Finished(r, "insufficient_stock")
        ELSE [r EXCEPT
                !.sess = Loaded(r.sess, item.product_id),
                !.items = Append(@,
                   [product_id |-> item.product_id,
                    quantity |-> item.quantity,
                    unit_price |-> UnitPrice(found[1]),
                    total_price |-> UnitPrice(found[1]) * item.quantity]),
                !.total_amount = @ + UnitPrice(found[1]) * item.quantity,
                !.i = @ + 1]

\* A first loop that takes the stock of each line as soon as the line passes.
validate_line_eager(p) ==
    LET r == req[p]
        pid == r.cart[r.i].product_id
    IN  /\ r.pc = "validate"
        /\ r.i <= Len(r.cart)
        /\ req' = [req EXCEPT ![p] = ValidatedLine(r)]
        /\ products' =
             IF ValidatedLine(r).pc = "validate"
             THEN [products EXCEPT ![pid].stock_quantity =
                     @ - r.cart[r.i].quantity]
             ELSE products
        /\ UNCHANGED <<account_vars, reply, ledger_vars, orders, order_items>>

validate_line(p) ==
    LET r == req[p]
    IN  /\ r.pc = "validate"
        /\ r.i <= Len(r.cart)
        /\ req' = [req EXCEPT ![p] = ValidatedLine(r)]
        /\ UNCHANGED <<account_vars, reply, ledger_vars, products, orders, order_items>>

\* db.add(db_order); db.commit(); db.refresh(db_order): the Order row is
\* committed on its own and the session's objects are expired.
commit_order(p) ==
    LET r == req[p]
    IN  /\ r.pc = "validate"
        /\ r.i > Len(r.cart)
        /\ orders' = Append(orders,
                       [user_id |-> r.user_id,
                        total_amount |-> r.total_amount,
                        status |-> "pending"])
        /\ req' = [req EXCEPT ![p] =
             [r EXCEPT !.pc = "items", !.order_id = Len(orders) + 1,
                       !.sess = NoSession, !.i = 1]]
        /\ UNCHANGED <<account_vars, reply, ledger_vars, products, order_items>>

\* A second loop that decrements the stock it reads from the committed row
\* instead of the product object its session holds.
add_item_stale(p) ==
    LET r == req[p]
        item_data == r.items[r.i]
        pid == item_data.product_id
        sess == Loaded(r.sess, pid)
    IN  /\ r.pc = "items"
        /\ r.i <= Len(r.items)
        /\ req' = [req EXCEPT ![p] =
             [r EXCEPT
                !.pending = Append(@,
                   [order_id |-> r.order_id,
                    product_id |-> pid,
                    quantity |-> item_data.quantity,
                    unit_price |-> item_data.unit_price,
                    total_price |-> item_data.total_price]),
                !.sess = [sess EXCEPT ![pid].stock_quantity =
                            products[pid].stock_quantity - item_data.quantity],
                !.i = @ + 1]]
        /\ UNCHANGED <<account_vars, reply, ledger_vars, products, orders, order_items>>

\* One pass of the second loop: add the OrderItem to the session, read the
\* product again (the query flushes the session, and a product the session
\* already holds is the same object) and decrement its stock in the session.
add_item(p) ==
    LET r == req[p]
        item_data == r.items[r.i]
        pid == item_data.product_id
        sess == Loaded(r.sess, pid)
    IN  /\ r.pc = "items"
        /\ r.i <= Len(r.items)
        /\ req' = [req EXCEPT ![p] =
             [r EXCEPT
                !.pending = Append(@,
                   [order_id |-> r.order_id,
                    product_id |-> pid,
                    quantity |-> item_data.quantity,
                    unit_price |-> item_data.unit_price,
                    total_price |-> item_data.total_price]),
                !.sess = [sess EXCEPT ![pid].stock_quantity =
                            @ - item_data.quantity],
                !.i = @ + 1]]
        /\ UNCHANGED <<account_vars, reply, ledger_vars, products, orders, order_items>>

\* The final db.commit(): the OrderItem rows and the stock_quantity of the
\* products whose stock the session changed are written together.
Written(r, pid) ==
    \E k \in 1..Len(r.items) :
        r.items[k].product_id = pid /\ r.items[k].quantity # 0

commit_items(p) ==
    LET r == req[p]
    IN  /\ r.pc = "items"
        /\ r.i > Len(r.items)
        /\ order_items' = order_items \o r.pending
        /\ products' = [pid \in DOMAIN products |->
             IF pid \in DOMAIN r.sess /\ Written(r, pid)
             THEN [products[pid] EXCEPT
                     !.stock_quantity = r.sess[pid].stock_quantity]
             ELSE products[pid]]
        /\ req' = [req EXCEPT ![p] = Finished(r, "ok")]
        /\ UNCHANGED <<account_vars, reply, ledger_vars, orders>>

\* The response is sent and the session closed.
return(p) ==
    /\ req[p].pc = "done"
    /\ req' = [req EXCEPT ![p] = IdleReq]
    /\ UNCHANGED <<account_vars, reply, ledger_vars, products, orders, order_items>>

\* The five values of valid_statuses in update_order_status_endpoint.
valid_statuses == {"pending", "confirmed", "shipped", "delivered", "cancelled"}

\* A status update that also drops the order's owner.
update_order_status_disown(order_id, new_status) ==
    /\ order_id \in DOMAIN orders
    /\ orders' = [orders EXCEPT ![order_id].status = new_status,
                                ![order_id].user_id = None]
    /\ UNCHANGED <<account_vars, ledger_vars, products, order_items, req>>

\* crud.update_order_status: the status of the order is written and
\* committed.
update_order_status(order_id, new_status) ==
    /\ order_id \in DOMAIN orders
    /\ orders' = [orders EXCEPT ![order_id].status = new_status]
    /\ UNCHANGED <<account_vars, ledger_vars, products, order_items, req>>

Reply(op, args, status_code, body) ==
    [op |-> op, args |-> args, status_code |-> status_code, body |-> body]

\* Nothing but the response changes.
Answer(op, args, status_code, body) ==
    /\ reply' = Reply(op, args, status_code, body)
    /\ UNCHANGED <<order_vars, ledger_vars, account_vars>>

\* An endpoint that writes whatever status it is given.
update_order_status_endpoint_unchecked(user_id, order_id, new_status) ==
    LET args == [user_id |-> user_id, order_id |-> order_id, status |-> new_status]
    IN  IF order_id \notin DOMAIN orders
        THEN Answer("update_order_status", args, 404, <<>>)
        ELSE /\ update_order_status(order_id, new_status)
             /\ reply' = Reply("update_order_status", args, 200, <<>>)

\* PUT /orders/{id}/status by any authenticated user: 404 for an absent
\* order, 400 for a missing or empty status ("" here) and for one outside
\* valid_statuses; otherwise update_order_status writes it.
update_order_status_endpoint(user_id, order_id, new_status) ==
    LET args == [user_id |-> user_id, order_id |-> order_id, status |-> new_status]
    IN  IF order_id \notin DOMAIN orders
        THEN Answer("update_order_status", args, 404, <<>>)
        ELSE IF new_status = ""
        THEN Answer("update_order_status", args, 400, <<"Status is required">>)
        ELSE IF new_status \notin valid_statuses
        THEN Answer("update_order_status", args, 400, <<"Invalid status">>)
        ELSE /\ update_order_status(order_id, new_status)
             /\ reply' = Reply("update_order_status", args, 200, <<>>)

(***************************************************************************)
(* Coupon ledger.  A coupon's id is its position in coupons.  The code     *)
(* generate_coupon_code draws ("LOYALTY" and 8 random characters) is one   *)
(* of NumCodes codes here.                                                 *)
(***************************************************************************)
NumCodes == 2
MaxUsages == 2
MaxTime == 2

Codes == 1..NumCodes

FinishedCall(c, result, response) ==
    [c EXCEPT !.pc = "done", !.seen = None,
              !.result = result, !.response = response]

\* POST /loyalty/coupons: the user is found by e-mail, then create_coupon_code
\* is entered; max_uses and discount_percentage are not range-checked.
create_coupon_begin(p, user_id, discount_percentage, max_uses, expires_at) ==
    /\ call[p].pc = "idle"
    /\ call' = [call EXCEPT ![p] =
         [IdleCall EXCEPT !.pc = "generate", !.op = "create_coupon_code",
                          !.user_id = user_id,
                          !.discount_percentage = discount_percentage,
                          !.max_uses = max_uses, !.expires_at = expires_at,
                          !.at = now, !.pre = Ledger]]
    /\ UNCHANGED <<account_vars, reply, order_vars, coupons, coupon_usages, now, designs, design_votes>>

\* A generator that draws the same code every time.
generate_coupon_code_lowest(p, code) ==
    /\ call[p].pc = "generate"
    /\ call' = [call EXCEPT ![p].code = Min(Codes), ![p].pc = "check"]
    /\ UNCHANGED <<account_vars, reply, order_vars, coupons, coupon_usages, now, designs, design_votes>>

\* code = generate_coupon_code(): any code may be drawn.
generate_coupon_code(p, code) ==
    /\ call[p].pc = "generate"
    /\ call' = [call EXCEPT ![p].code = code, ![p].pc = "check"]
    /\ UNCHANGED <<account_vars, reply, order_vars, coupons, coupon_usages, now, designs, design_votes>>

\* get_coupon_by_code: the first coupon with the code, or None.
get_coupon_by_code(code) ==
    LET ids == {k \in DOMAIN coupons : coupons[k].code = code}
    IN  IF ids = {} THEN None ELSE <<Min(ids)>>

\* while db.query(CouponCode).filter(CouponCode.code == code).first():
\* a code some coupon has is drawn again.
check_code(p) ==
    /\ call[p].pc = "check"
    /\ call' = [call EXCEPT ![p].pc =
         IF get_coupon_by_code(call[p].code) # None THEN "generate" ELSE "insert"]
    /\ UNCHANGED <<account_vars, reply, order_vars, coupons, coupon_usages, now, designs, design_votes>>

NewCoupon(c) ==
    [code |-> c.code, user_id |-> c.user_id,
     discount_percentage |-> c.discount_percentage,
     max_uses |-> c.max_uses, used_count |-> 0, is_active |-> TRUE,
     expires_at |-> c.expires_at]

\* An insert into a table without the unique index on code.
insert_coupon_no_index(p) ==
    /\ call[p].pc = "insert"
    /\ coupons' = Append(coupons, NewCoupon(call[p]))
    /\ call' = [call EXCEPT ![p] = FinishedCall(@, "ok", <<Len(coupons) + 1>>)]
    /\ UNCHANGED <<account_vars, reply, order_vars, coupon_usages, now, designs, design_votes>>

\* db.add(db_coupon); db.commit(): the row is inserted unless a committed
\* row has the code (unique index of CouponCode.code), and then the commit
\* raises and nothing is written.
insert_coupon(p) ==
    /\ call[p].pc = "insert"
    /\ IF get_coupon_by_code(call[p].code) # None
       THEN /\ call' = [call EXCEPT ![p] =
                  FinishedCall(@, "integrity_error", None)]
            /\ UNCHANGED coupons
       ELSE /\ coupons' = Append(coupons, NewCoupon(call[p]))
            /\ call' = [call EXCEPT ![p] =
                  FinishedCall(@, "ok", <<Len(coupons) + 1>>)]
    /\ UNCHANGED <<account_vars, reply, order_vars, coupon_usages, now, designs, design_votes>>

\* validate_coupon: the id of the coupon, or None.
validate_coupon(code, user_id) ==
    LET found == get_coupon_by_code(code)
    IN  IF found = None THEN None
        ELSE LET coupon == coupons[found[1]]
             IN  IF coupon.user_id # user_id THEN None
                 ELSE IF ~coupon.is_active THEN None
                 ELSE IF coupon.expires_at # None /\ coupon.expires_at[1] < now
                 THEN None
                 ELSE IF coupon.used_count >= coupon.max_uses THEN None
                 ELSE found

InvalidResponse ==
    <<[valid |-> FALSE, coupon |-> None,
       message |-> "Invalid or expired coupon code"]>>

\* A response that tells a code nobody has from a coupon that cannot be used.
ValidateResponseTelling(code, user_id) ==
    LET coupon == validate_coupon(code, user_id)
    IN  IF coupon = None
        THEN IF get_coupon_by_code(code) = None
             THEN <<[valid |-> FALSE, coupon |-> None,
                     message |-> "Coupon code not found"]>>
             ELSE InvalidResponse
        ELSE <<[valid |-> TRUE, coupon |-> <<coupons[coupon[1]]>>,
                message |-> "Valid coupon code"]>>

\* The body of GET /loyalty/coupons/validate/{code}.
ValidateResponse(code, user_id) ==
    LET coupon == validate_coupon(code, user_id)
    IN  IF coupon = None
        THEN InvalidResponse
        ELSE <<[valid |-> TRUE, coupon |-> <<coupons[coupon[1]]>>,
                message |-> "Valid coupon code"]>>

\* GET /loyalty/coupons/validate/{code} by the user user_id: reads only.
validate_my_coupon(p, code, user_id) ==
    /\ call[p].pc = "idle"
    /\ call' = [call EXCEPT ![p] =
         FinishedCall([IdleCall EXCEPT !.op = "validate_coupon",
                                       !.code = code, !.user_id = user_id,
                                       !.at = now, !.pre = Ledger],
                      IF validate_coupon(code, user_id) = None
                      THEN "not_valid" ELSE "valid",
                      ValidateResponse(code, user_id))]
    /\ UNCHANGED <<account_vars, reply, order_vars, coupons, coupon_usages, now, designs, design_votes>>

\* use_coupon up to its query: db.add(db_usage), then the query flushes the
\* INSERT of the usage row, which the store rejects when coupon_id or
\* order_id names no row (foreign keys of CouponUsage), and reads the coupon.
use_coupon_begin(p, coupon_id, order_id, discount_amount) ==
    /\ call[p].pc = "idle"
    /\ LET c == [IdleCall EXCEPT !.op = "use_coupon",
                                 !.coupon_id = coupon_id,
                                 !.order_id = order_id,
                                 !.discount_amount = discount_amount,
                                 !.at = now, !.pre = Ledger]
       IN  call' = [call EXCEPT ![p] =
             IF coupon_id \notin DOMAIN coupons \/ order_id \notin DOMAIN orders
             THEN FinishedCall(c, "integrity_error", None)
             ELSE [c EXCEPT !.pc = "commit", !.seen = <<coupons[coupon_id]>>]]
    /\ UNCHANGED <<account_vars, reply, order_vars, coupons, coupon_usages, now, designs, design_votes>>

UsageRow(c) ==
    [coupon_id |-> c.coupon_id, order_id |-> c.order_id,
     discount_amount |-> c.discount_amount]

\* A redemption that counts but never deactivates.
use_coupon_commit_keep_active(p) ==
    LET c == call[p]
        used_count == c.seen[1].used_count + 1
    IN  /\ c.pc = "commit"
        /\ coupons' = [coupons EXCEPT ![c.coupon_id].used_count = used_count]
        /\ coupon_usages' = Append(coupon_usages, UsageRow(c))
        /\ call' = [call EXCEPT ![p] =
             FinishedCall(c, "ok", <<Len(coupon_usages) + 1>>)]
        /\ UNCHANGED <<account_vars, reply, order_vars, now, designs, design_votes>>

\* coupon.used_count += 1 on the object the session read, is_active = False
\* when the new count has reached max_uses, then db.commit(): the usage row
\* and the changed columns of the coupon are written together.
use_coupon_commit(p) ==
    LET c == call[p]
        used_count == c.seen[1].used_count + 1
    IN  /\ c.pc = "commit"
        /\ coupons' = [coupons EXCEPT
             ![c.coupon_id].used_count = used_count,
             ![c.coupon_id].is_active =
                 IF used_count >= c.seen[1].max_uses /\ c.seen[1].is_active
                 THEN FALSE ELSE @]
        /\ coupon_usages' = Append(coupon_usages, UsageRow(c))
        /\ call' = [call EXCEPT ![p] =
             FinishedCall(c, "ok", <<Len(coupon_usages) + 1>>)]
        /\ UNCHANGED <<account_vars, reply, order_vars, now, designs, design_votes>>

\* PUT /loyalty/coupons/{id}/deactivate: 404 for an absent coupon.
deactivate_coupon(coupon_id) ==
    /\ coupon_id \in DOMAIN coupons
    /\ coupons' = [coupons EXCEPT ![coupon_id].is_active = FALSE]
    /\ UNCHANGED <<account_vars, reply, order_vars, coupon_usages, now, designs, design_votes, call>>

\* The response is sent and the session closed.
call_return(p) ==
    /\ call[p].pc = "done"
    /\ call' = [call EXCEPT ![p] = IdleCall]
    /\ UNCHANGED <<account_vars, reply, order_vars, coupons, coupon_usages, now, designs, design_votes>>

\* Time passes.
Tick ==
    /\ now < MaxTime
    /\ now' = now + 1
    /\ UNCHANGED <<account_vars, reply, order_vars, coupons, coupon_usages, designs, design_votes, call>>

(***************************************************************************)
(* Design votes.  A design's id is its position in designs; a vote's id is *)
(* its position in design_votes, where a deleted row leaves None (ids are  *)
(* not given out twice).  delete_design is left out.                       *)
(***************************************************************************)
MaxDesigns == 1
MaxVoters == 2
MaxVoteRows == 2

Voters == 1..MaxVoters
DesignIds == 1..MaxDesigns
VoteTypes == {"upvote", "downvote"}

\* POST /designs: create_design stores the design with total_votes 0.
create_design(user_id) ==
    /\ Len(designs) < MaxDesigns
    /\ designs' = Append(designs,
                    [user_id |-> user_id, status |-> "pending", total_votes |-> 0])
    /\ UNCHANGED <<account_vars, reply, order_vars, coupons, coupon_usages, now, design_votes, call>>

\* db.query(DesignVote).filter(design_id, user_id).first(): the id of the
\* first such row, or None.
get_user_vote(design_id, user_id) ==
    LET ids == {k \in DOMAIN design_votes :
                  /\ design_votes[k] # None
                  /\ design_votes[k][1].design_id = design_id
                  /\ design_votes[k][1].user_id = user_id}
    IN  IF ids = {} THEN None ELSE <<Min(ids)>>

\* POST /designs/{id}/vote: 404 for an absent design, 400 for another vote
\* type; create_vote then looks for the caller's vote on the design.
create_vote_begin(p, design_id, user_id, vote_type) ==
    /\ call[p].pc = "idle"
    /\ design_id \in DOMAIN designs
    /\ vote_type \in VoteTypes
    /\ call' = [call EXCEPT ![p] =
         [IdleCall EXCEPT !.pc = "vote", !.op = "create_vote",
                          !.design_id = design_id, !.user_id = user_id,
                          !.vote_type = vote_type,
                          !.seen = get_user_vote(design_id, user_id),
                          !.at = now, !.pre = Ledger]]
    /\ UNCHANGED <<account_vars, reply, order_vars, coupons, coupon_usages, now, designs, design_votes>>

\* A create_vote that inserts a row whether or not the caller has voted.
create_vote_write_always_insert(p) ==
    LET c == call[p]
    IN  /\ c.pc = "vote"
        /\ design_votes' = Append(design_votes,
              <<[design_id |-> c.design_id, user_id |-> c.user_id,
                 vote_type |-> c.vote_type]>>)
        /\ call' = [call EXCEPT ![p].pc = "count",
                                ![p].response = <<Len(design_votes) + 1>>]
        /\ UNCHANGED <<account_vars, reply, order_vars, coupons, coupon_usages, now, designs>>

\* create_vote after its query: an existing vote gets the new vote_type, is
\* committed and returned (the UPDATE of a row that is gone raises); a new
\* vote is inserted and committed, and the tally of the design is updated.
create_vote_write(p) ==
    LET c == call[p]
    IN  /\ c.pc = "vote"
        /\ IF c.seen # None
           THEN IF design_votes[c.seen[1]] = None
                THEN /\ call' = [call EXCEPT ![p] =
                           FinishedCall(c, "stale_data_error", None)]
                     /\ UNCHANGED design_votes
                ELSE /\ design_votes' = [design_votes EXCEPT
                           ![c.seen[1]] = <<[@[1] EXCEPT !.vote_type = c.vote_type]>>]
                     /\ call' = [call EXCEPT ![p] = FinishedCall(c, "ok", c.seen)]
           ELSE /\ design_votes' = Append(design_votes,
                      <<[design_id |-> c.design_id, user_id |-> c.user_id,
                         vote_type |-> c.vote_type]>>)
                /\ call' = [call EXCEPT ![p].pc = "count",
                                        ![p].response = <<Len(design_votes) + 1>>]
        /\ UNCHANGED <<account_vars, reply, order_vars, coupons, coupon_usages, now, designs>>

\* DELETE /designs/{id}/vote: 404 for an absent design and when the caller
\* has no vote on it; delete_vote deletes the row and commits.
delete_vote_begin(p, design_id, user_id) ==
    /\ call[p].pc = "idle"
    /\ design_id \in DOMAIN designs
    /\ LET c == [IdleCall EXCEPT !.op = "delete_vote",
                                 !.design_id = design_id, !.user_id = user_id,
                                 !.seen = get_user_vote(design_id, user_id),
                                 !.at = now, !.pre = Ledger]
       IN  call' = [call EXCEPT ![p] =
             IF c.seen = None
             THEN FinishedCall(c, "not_found", None)
             ELSE [c EXCEPT !.pc = "delete"]]
    /\ UNCHANGED <<account_vars, reply, order_vars, coupons, coupon_usages, now, designs, design_votes>>

delete_vote_commit(p) ==
    LET c == call[p]
    IN  /\ c.pc = "delete"
        /\ design_votes' = [design_votes EXCEPT ![c.seen[1]] = None]
        /\ call' = [call EXCEPT ![p].pc = "count"]
        /\ UNCHANGED <<account_vars, reply, order_vars, coupons, coupon_usages, now, designs>>

\* The two count() queries of update_design_vote_count.
VoteCount(design_id, vote_type) ==
    Cardinality({k \in DOMAIN design_votes :
                   /\ design_votes[k] # None
                   /\ design_votes[k][1].design_id = design_id
                   /\ design_votes[k][1].vote_type = vote_type})

count_votes(p) ==
    LET c == call[p]
    IN  /\ c.pc = "count"
        /\ call' = [call EXCEPT
             ![p].pc = "total",
             ![p].seen = <<VoteCount(c.design_id, "upvote")
                             - VoteCount(c.design_id, "downvote")>>]
        /\ UNCHANGED <<account_vars, reply, order_vars, coupons, coupon_usages, now, designs, design_votes>>

\* design.total_votes = upvotes - downvotes; db.commit()
write_total(p) ==
    LET c == call[p]
    IN  /\ c.pc = "total"
        /\ designs' = [designs EXCEPT ![c.design_id].total_votes = c.seen[1]]
        /\ call' = [call EXCEPT ![p] = FinishedCall(c, "ok", c.response)]
        /\ UNCHANGED <<account_vars, reply, order_vars, coupons, coupon_usages, now, design_votes>>

(***************************************************************************)
(* Product reviews.  A review's id is its position in reviews, where a     *)
(* deleted row leaves None.  The table has no unique constraint; its       *)
(* product_id is a foreign key.  Rating, comment and image are left out.   *)
(***************************************************************************)
MaxReviewers == 2
MaxReviewRows == 2

Reviewers == 1..MaxReviewers

\* db.query(Review).filter(user_id, product_id).first(): the id of the first
\* such row, or None.
get_user_review_for_product(user_id, product_id) ==
    LET ids == {k \in DOMAIN reviews :
                  /\ reviews[k] # None
                  /\ reviews[k][1].user_id = user_id
                  /\ reviews[k][1].product_id = product_id}
    IN  IF ids = {} THEN None ELSE <<Min(ids)>>

\* POST /reviews: create_review first looks for the caller's review of the
\* product.
create_review_begin(p, user_id, product_id) ==
    /\ call[p].pc = "idle"
    /\ call' = [call EXCEPT ![p] =
         [IdleCall EXCEPT !.pc = "review", !.op = "create_review",
                          !.user_id = user_id, !.product_id = product_id,
                          !.seen = get_user_review_for_product(user_id, product_id),
                          !.at = now, !.pre = Ledger]]
    /\ UNCHANGED <<account_vars, reply, order_vars, coupons, coupon_usages, now, designs, design_votes>>

\* A create_review that inserts whether or not the caller has a review.
create_review_insert_unchecked(p) ==
    LET c == call[p]
    IN  /\ c.pc = "review"
        /\ IF c.product_id \notin DOMAIN products
           THEN /\ call' = [call EXCEPT ![p] =
                      FinishedCall(c, "integrity_error", None)]
                /\ UNCHANGED reviews
           ELSE /\ reviews' = Append(reviews,
                      <<[user_id |-> c.user_id, product_id |-> c.product_id]>>)
                /\ call' = [call EXCEPT ![p] =
                      FinishedCall(c, "ok", <<Len(reviews) + 1>>)]
        /\ UNCHANGED <<payment_proofs, users, reply, order_vars, coupons, coupon_usages, now, designs, design_votes>>

\* create_review after its query: ValueError ("User has already reviewed
\* this product", answered 400) when a review was found; otherwise the row
\* is inserted and committed, and the store refuses an absent product.
create_review_insert(p) ==
    LET c == call[p]
    IN  /\ c.pc = "review"
        /\ IF c.seen # None
           THEN /\ call' = [call EXCEPT ![p] =
                      FinishedCall(c, "already_reviewed", None)]
                /\ UNCHANGED reviews
           ELSE IF c.product_id \notin DOMAIN products
           THEN /\ call' = [call EXCEPT ![p] =
                      FinishedCall(c, "integrity_error", None)]
                /\ UNCHANGED reviews
           ELSE /\ reviews' = Append(reviews,
                      <<[user_id |-> c.user_id, product_id |-> c.product_id]>>)
                /\ call' = [call EXCEPT ![p] =
                      FinishedCall(c, "ok", <<Len(reviews) + 1>>)]
        /\ UNCHANGED <<payment_proofs, users, reply, order_vars, coupons, coupon_usages, now, designs, design_votes>>

\* DELETE /reviews/{id}: 404 for an absent review, 403 for another user's;
\* delete_review deletes the caller's row and commits.
delete_review(review_id, user_id) ==
    /\ review_id \in DOMAIN reviews
    /\ reviews[review_id] # None
    /\ reviews[review_id][1].user_id = user_id
    /\ reviews' = [reviews EXCEPT ![review_id] = None]
    /\ UNCHANGED <<payment_proofs, users, reply, order_vars, ledger_vars>>

(***************************************************************************)
(* Reading orders and their payment proofs.  A proof's id is its position  *)
(* in payment_proofs, where a deleted row leaves None.  The upload of the  *)
(* image to the media host is left out.                                    *)
(***************************************************************************)
MaxProofs == 2

ProofIds == 1..MaxProofs

\* order.user_id != current_user.id
NotOwner(order_id, user_id) == orders[order_id].user_id # <<user_id>>

\* GET /orders/{id}: 404 for an absent order, 403 unless the caller owns it.
get_order(user_id, order_id) ==
    LET args == [user_id |-> user_id, order_id |-> order_id]
    IN  IF order_id \notin DOMAIN orders
        THEN Answer("get_order", args, 404, <<>>)
        ELSE IF NotOwner(order_id, user_id)
        THEN Answer("get_order", args, 403, <<>>)
        ELSE Answer("get_order", args, 200, <<orders[order_id]>>)

\* GET /orders/guest/{id}, no authentication: 404 for an absent order, 403
\* for an order that has a user.
get_guest_order(order_id) ==
    LET args == [order_id |-> order_id]
    IN  IF order_id \notin DOMAIN orders
        THEN Answer("get_guest_order", args, 404, <<>>)
        ELSE IF orders[order_id].user_id # None
        THEN Answer("get_guest_order", args, 403, <<>>)
        ELSE Answer("get_guest_order", args, 200, <<orders[order_id]>>)

\* POST /orders/{id}/payment-proofs: 404, 403 as above; then
\* create_payment_proof inserts the row and commits.
add_payment_proof(user_id, order_id) ==
    LET args == [user_id |-> user_id, order_id |-> order_id]
    IN  IF order_id \notin DOMAIN orders
        THEN Answer("add_payment_proof", args, 404, <<>>)
        ELSE IF NotOwner(order_id, user_id)
        THEN Answer("add_payment_proof", args, 403, <<>>)
        ELSE /\ payment_proofs' = Append(payment_proofs, <<[order_id |-> order_id]>>)
             /\ reply' = Reply("add_payment_proof", args, 200,
                               <<Len(payment_proofs) + 1>>)
             /\ UNCHANGED <<order_vars, ledger_vars, reviews, users>>

\* get_order_payment_proofs: the ids of the proofs of the order.
get_order_payment_proofs(order_id) ==
    {k \in DOMAIN payment_proofs :
       payment_proofs[k] # None /\ payment_proofs[k][1].order_id = order_id}

\* GET /orders/{id}/payment-proofs: 404, 403 as above; then the proofs.
get_order_payment_proofs_endpoint(user_id, order_id) ==
    LET args == [user_id |-> user_id, order_id |-> order_id]
    IN  IF order_id \notin DOMAIN orders
        THEN Answer("get_order_payment_proofs", args, 404, <<>>)
        ELSE IF NotOwner(order_id, user_id)
        THEN Answer("get_order_payment_proofs", args, 403, <<>>)
        ELSE Answer("get_order_payment_proofs", args, 200,
                    <<get_order_payment_proofs(order_id)>>)

\* A delete endpoint that does not look at the owner of the order.
delete_payment_proof_endpoint_any_caller(user_id, proof_id) ==
    LET args == [user_id |-> user_id, proof_id |-> proof_id]
    IN  IF proof_id \notin DOMAIN payment_proofs \/ payment_proofs[proof_id] = None
        THEN Answer("delete_payment_proof", args, 404, <<>>)
        ELSE /\ payment_proofs' = [payment_proofs EXCEPT ![proof_id] = None]
             /\ reply' = Reply("delete_payment_proof", args, 200, <<>>)
             /\ UNCHANGED <<order_vars, ledger_vars, reviews, users>>

\* DELETE /orders/payment-proofs/{id}: 404 for an absent proof, 403 unless
\* the caller owns the order of the proof; then delete_payment_proof deletes
\* the row and commits.
delete_payment_proof_endpoint(user_id, proof_id) ==
    LET args == [user_id |-> user_id, proof_id |-> proof_id]
    IN  IF proof_id \notin DOMAIN payment_proofs \/ payment_proofs[proof_id] = None
        THEN Answer("delete_payment_proof", args, 404, <<>>)
        ELSE IF NotOwner(payment_proofs[proof_id][1].order_id, user_id)
        THEN Answer("delete_payment_proof", args, 403, <<>>)
        ELSE /\ payment_proofs' = [payment_proofs EXCEPT ![proof_id] = None]
             /\ reply' = Reply("delete_payment_proof", args, 200, <<>>)
             /\ UNCHANGED <<order_vars, ledger_vars, reviews, users>>

(***************************************************************************)
(* User accounts and password reset.  A user's id is its position in       *)
(* users.  A password hash is written [hash_of |-> password]; the token    *)
(* secrets.token_urlsafe draws is one of MaxTokens tokens here, and the    *)
(* hour a token lives is TokenLife ticks of the clock.                     *)
(***************************************************************************)
MaxAccounts == 1
MaxTokens == 2
TokenLife == 1

Emails == {1, 2}
Passwords == {1, 2}
Tokens == 1..MaxTokens

\* select(User).where(User.email == email).first()
get_user_by_email(email) ==
    LET ids == {k \in DOMAIN users : users[k].email = email}
    IN  IF ids = {} THEN None ELSE <<Min(ids)>>

\* POST /auth/register: 400 for an e-mail that is registered; create_user
\* stores the user with the hash of the password and no reset token.
register(email, password) ==
    LET args == [email |-> email, password |-> password]
    IN  IF get_user_by_email(email) # None
        THEN Answer("register", args, 400, <<>>)
        ELSE /\ users' = Append(users,
                   [email |-> email,
                    hashed_password |-> <<[hash_of |-> password]>>,
                    reset_token |-> None,
                    reset_token_expires |-> None])
             /\ reply' = Reply("register", args, 200, <<Len(users) + 1>>)
             /\ UNCHANGED <<order_vars, ledger_vars, reviews, payment_proofs>>

\* update_user: every field of user_update whose value is not None is set
\* on the user; a field given as None is left as it is.
update_user(user_id, user_update) ==
    [users EXCEPT ![user_id] =
       [f \in DOMAIN @ |->
          IF f \in DOMAIN user_update /\ user_update[f] # None
          THEN user_update[f] ELSE @[f]]]

\* POST /auth/forgot-password: the same 200 for an unknown e-mail, without
\* a token; otherwise the user gets a new token that lives one hour, and the
\* response carries it.
forgot_password(email, reset_token) ==
    LET args == [email |-> email]
        user == get_user_by_email(email)
    IN  IF user = None
        THEN Answer("forgot_password", args, 200, <<>>)
        ELSE /\ users' = update_user(user[1],
                   [reset_token |-> <<reset_token>>,
                    reset_token_expires |-> <<now + TokenLife>>])
             /\ reply' = Reply("forgot_password", args, 200, <<reset_token>>)
             /\ UNCHANGED <<order_vars, ledger_vars, reviews, payment_proofs>>

\* db.query(User).filter(reset_token == token,
\*                       reset_token_expires > utcnow()).first()
user_with_valid_token(token) ==
    LET ids == {k \in DOMAIN users :
                  /\ users[k].reset_token = <<token>>
                  /\ users[k].reset_token_expires # None
                  /\ users[k].reset_token_expires[1] > now}
    IN  IF ids = {} THEN None ELSE <<Min(ids)>>

\* POST /auth/reset-password: 400 ("Invalid or expired reset token") when
\* no user holds the token unexpired; otherwise update_user is given the
\* new hash and None for reset_token and reset_token_expires.
reset_password(token, new_password) ==
    LET args == [token |-> token, new_password |-> new_password]
        user == user_with_valid_token(token)
    IN  IF user = None
        THEN Answer("reset_password", args, 400,
                    <<"Invalid or expired reset token">>)
        ELSE /\ users' = update_user(user[1],
                   [hashed_password |-> <<[hash_of |-> new_password]>>,
                    reset_token |-> None,
                    reset_token_expires |-> None])
             /\ reply' = Reply("reset_password", args, 200, <<>>)
             /\ UNCHANGED <<order_vars, ledger_vars, reviews, payment_proofs>>

(***************************************************************************)
(* Inputs.                                                                 *)
(***************************************************************************)
CartLines == [product_id : ProductIds, quantity : Quantities]
Carts == SeqsUpTo(CartLines, MaxLines)

GuestStrings == SeqsUpTo(Alphabet, MaxStrLen)

\* The guest encodings used next to the other operations.
FewStrings ==
    {<<"1">>, <<"2">>, <<"1", ",", "2">>, <<"1", ",", "1">>, <<"-">>}

(***************************************************************************)
(* Sequential execution: one request at a time, each run to its end.       *)
(***************************************************************************)
CatalogStep ==
    \/ \E o \in Prices, d \in Discounts, s \in StockInputs : create_product(o, d, s)
    \/ \E pid \in ProductIds, u \in ProductUpdates : update_product(pid, u)
    \/ \E pid \in ProductIds, s \in StockInputs : update_product_stock(pid, s)

OrderStep(p) ==
    \/ validate_line(p)
    \/ commit_order(p)
    \/ add_item(p)
    \/ commit_items(p)
    \/ return(p)

\* The model stops taking orders once MaxOrders are placed or under way.
MayOrder == req[1].pc = "idle" /\ Len(orders) + InFlight < MaxOrders

Next ==
    \/ AllIdle /\ CatalogStep
    \/ MayOrder /\ \E u \in UserIds, c \in Carts : create_order_begin(1, u, c)
    \/ MayOrder /\ \E a \in FewStrings, b \in FewStrings :
                      create_guest_order_begin(1, a, b)
    \/ OrderStep(1)

Spec == Init /\ [][Next]_vars

(***************************************************************************)
(* Concurrent execution: every process serves one order request, and the   *)
(* statements of the two requests interleave.                              *)
(***************************************************************************)
ConcCarts == SeqsUpTo([product_id : {1}, quantity : Quantities], MaxLines)

NextConc ==
    \/ \E s \in StockInputs : create_product(2, None, s)
    \/ \E p \in Procs, u \in UserIds, c \in ConcCarts : create_order_begin(p, u, c)
    \/ \E p \in Procs : create_guest_order_begin(p, <<"1">>, <<"1">>)
    \/ \E p \in Procs : validate_line(p)
    \/ \E p \in Procs : commit_order(p)
    \/ \E p \in Procs : add_item(p)
    \/ \E p \in Procs : commit_items(p)

SpecConc == Init /\ [][NextConc]_vars

(***************************************************************************)
(* Guest checkout alone: the first guest order of a store with at most one *)
(* product, over every pair of encodings of at most MaxStrLen characters.  *)
(***************************************************************************)
NextGuest ==
    \/ AllIdle /\ products = <<>> /\ create_product(2, None, 2)
    \/ req[1].pc = "idle" /\ orders = <<>>
          /\ \E a \in GuestStrings, b \in GuestStrings :
                create_guest_order_begin(1, a, b)
    \/ OrderStep(1)

SpecGuest == Init /\ [][NextGuest]_vars

(***************************************************************************)
(* Orders of two callers and of guests, and the status updates that follow *)
(* them.                                                                   *)
(***************************************************************************)
Callers == {1, 2}

StatusInputs == valid_statuses \cup {"", "refunded"}

OrderIdInputs == {1, 2}

NextOwner ==
    \/ AllIdle /\ products = <<>> /\ create_product(2, None, 2)
    \/ MayOrder /\ \E u \in Callers, c \in ConcCarts : create_order_begin(1, u, c)
    \/ MayOrder /\ \E a \in FewStrings, b \in FewStrings :
                      create_guest_order_begin(1, a, b)
    \/ OrderStep(1)
    \/ \E o \in 1..MaxOrders, s \in {"cancelled", "refunded"} :
          update_order_status_endpoint(1, o, s)

SpecOwner == Init /\ [][NextOwner]_vars

(***************************************************************************)
(* The coupon ledger under sequential execution: one guest order is placed *)
(* for the redemptions to refer to, then coupons are issued, redeemed and   *)
(* deactivated, one call at a time.                                        *)
(***************************************************************************)
Quiet == AllIdle /\ \A p \in Procs : call[p].pc = "idle"

MaxUsesInputs == 0..MaxUsages

CouponIds == 1..NumCodes

\* The first guest order of the store, for one unit of its one product.
FirstOrder(p) ==
    \/ Quiet /\ products = <<>> /\ create_product(2, None, 1)
    \/ Quiet /\ products # <<>> /\ orders = <<>>
          /\ create_guest_order_begin(p, <<"1">>, <<"1">>)
    \/ OrderStep(p)

\* The model stops redeeming once MaxUsages usage rows are written.
MayRedeem == Quiet /\ Len(coupon_usages) < MaxUsages

NextCoupon ==
    \/ FirstOrder(1)
    \/ Quiet /\ \E m \in MaxUsesInputs : create_coupon_begin(1, 1, 10, m, None)
    \/ \E code \in Codes : generate_coupon_code(1, code)
    \/ check_code(1)
    \/ insert_coupon(1)
    \/ MayRedeem /\ \E c \in CouponIds, o \in OrderIdInputs :
                       use_coupon_begin(1, c, o, 5)
    \/ use_coupon_commit(1)
    \/ Quiet /\ \E c \in CouponIds : deactivate_coupon(c)
    \/ call_return(1)

SpecCoupon == Init /\ [][NextCoupon]_vars

(***************************************************************************)
(* The coupon ledger under concurrent execution: the calls of the two      *)
(* processes interleave statement by statement.                            *)
(***************************************************************************)
Redeeming == Cardinality({p \in Procs : call[p].pc = "commit"})

NextCouponConc ==
    \/ FirstOrder(1)
    \/ \E p \in Procs, m \in MaxUsesInputs \ {0} :
          create_coupon_begin(p, 1, 10, m, None)
    \/ \E p \in Procs, code \in Codes : generate_coupon_code(p, code)
    \/ \E p \in Procs : check_code(p)
    \/ \E p \in Procs : insert_coupon(p)
    \/ Len(coupon_usages) + Redeeming < MaxUsages
          /\ \E p \in Procs, c \in CouponIds : use_coupon_begin(p, c, 1, 5)
    \/ \E p \in Procs : use_coupon_commit(p)
    \/ \E p \in Procs : call_return(p)

SpecCouponConc == Init /\ [][NextCouponConc]_vars

(***************************************************************************)
(* Coupon issue alone: the two processes issue coupons at the same time.   *)
(***************************************************************************)
NextIssue ==
    \/ \E p \in Procs : create_coupon_begin(p, 1, 10, 1, None)
    \/ \E p \in Procs, code \in Codes : generate_coupon_code(p, code)
    \/ \E p \in Procs : check_code(p)
    \/ \E p \in Procs : insert_coupon(p)
    \/ \E p \in Procs : call_return(p)

SpecIssue == Init /\ [][NextIssue]_vars

(***************************************************************************)
(* Coupon validation: at most two coupons of two users, with and without   *)
(* an expiry, are issued and deactivated while time passes; both processes *)
(* validate codes and keep their responses until they return.              *)
(***************************************************************************)
ExpiryInputs == {None, <<1>>}

NoCallUnderWay == \A p \in Procs : call[p].pc \in {"idle", "done"}

NextValidate ==
    \/ Quiet /\ Len(coupons) < 2
          /\ \E u \in Callers, m \in {0, 1}, e \in ExpiryInputs :
                create_coupon_begin(1, u, 10, m, e)
    \/ \E code \in Codes : generate_coupon_code(1, code)
    \/ check_code(1)
    \/ insert_coupon(1)
    \/ Quiet /\ \E c \in CouponIds : deactivate_coupon(c)
    \/ Quiet /\ Tick
    \/ NoCallUnderWay
          /\ \E p \in Procs, code \in Codes, u \in Callers :
                validate_my_coupon(p, code, u)
    \/ \E p \in Procs : call_return(p)

SpecValidate == Init /\ [][NextValidate]_vars

(***************************************************************************)
(* Voting under sequential execution: one call at a time.                  *)
(***************************************************************************)
\* The model stops adding votes once MaxVoteRows vote rows were inserted;
\* a user who has a vote may always vote again.
MayVote(d, u) ==
    Len(design_votes) < MaxVoteRows \/ get_user_vote(d, u) # None

NextVotes ==
    \/ Quiet /\ \E u \in Voters : create_design(u)
    \/ Quiet /\ \E d \in DesignIds, u \in Voters, t \in VoteTypes :
                   MayVote(d, u) /\ create_vote_begin(1, d, u, t)
    \/ create_vote_write(1)
    \/ Quiet /\ \E d \in DesignIds, u \in Voters : delete_vote_begin(1, d, u)
    \/ delete_vote_commit(1)
    \/ count_votes(1)
    \/ write_total(1)
    \/ call_return(1)

SpecVotes == Init /\ [][NextVotes]_vars

(***************************************************************************)
(* Reviews under sequential execution: one call at a time.                 *)
(***************************************************************************)
\* The model stops adding reviews once MaxReviewRows rows were inserted; a
\* user who has reviewed a product may always try again.
MayReview(u, pr) ==
    Len(reviews) < MaxReviewRows \/ get_user_review_for_product(u, pr) # None

NextReviews ==
    \/ Quiet /\ create_product(2, None, 1)
    \/ Quiet /\ \E u \in Reviewers, pr \in ProductIds :
                   MayReview(u, pr) /\ create_review_begin(1, u, pr)
    \/ create_review_insert(1)
    \/ Quiet /\ \E r \in 1..MaxReviewRows, u \in Reviewers : delete_review(r, u)
    \/ call_return(1)

SpecReviews == Init /\ [][NextReviews]_vars

(***************************************************************************)
(* Votes and reviews under concurrent execution: each of the two processes *)
(* serves one create_vote or one create_review, and their statements       *)
(* interleave.                                                             *)
(***************************************************************************)
Voting == Cardinality({p \in Procs : call[p].pc = "vote"})

Reviewing == Cardinality({p \in Procs : call[p].pc = "review"})

NextPairs ==
    \/ Quiet /\ create_product(2, None, 1)
    \/ Quiet /\ \E u \in Voters : create_design(u)
    \/ Len(design_votes) + Voting < MaxVoteRows
          /\ \E p \in Procs, d \in DesignIds, u \in Voters, t \in VoteTypes :
                create_vote_begin(p, d, u, t)
    \/ \E p \in Procs : create_vote_write(p)
    \/ \E p \in Procs : count_votes(p)
    \/ \E p \in Procs : write_total(p)
    \/ Len(reviews) + Reviewing < MaxReviewRows
          /\ \E p \in Procs, u \in Reviewers, pr \in ProductIds :
                create_review_begin(p, u, pr)
    \/ \E p \in Procs : create_review_insert(p)

SpecPairs == Init /\ [][NextPairs]_vars

(***************************************************************************)
(* Order status: orders of a user and of guests are placed, and the two    *)
(* callers send status updates with every kind of status string, for       *)
(* orders that exist and for one that does not.                            *)
(***************************************************************************)
NextStatus ==
    \/ Quiet /\ products = <<>> /\ create_product(2, None, 2)
    \/ MayOrder /\ Quiet /\ products # <<>>
          /\ create_order_begin(1, 1, <<[product_id |-> 1, quantity |-> 1]>>)
    \/ MayOrder /\ Quiet /\ products # <<>>
          /\ create_guest_order_begin(1, <<"1">>, <<"1">>)
    \/ OrderStep(1)
    \/ \E u \in Callers, o \in OrderIdInputs, s \in StatusInputs :
          update_order_status_endpoint(u, o, s)

SpecStatus == Init /\ [][NextStatus]_vars

(***************************************************************************)
(* Coupon issue, one call at a time, with a fair generator: random.choices *)
(* draws every code with positive probability at every draw, so a code     *)
(* that can be drawn again and again is drawn at some time; a statement    *)
(* that can run does run.                                                  *)
(***************************************************************************)
NextIssueLoop ==
    \/ Quiet /\ \E u \in Callers, e \in ExpiryInputs :
                   create_coupon_begin(1, u, 10, 1, e)
    \/ \E code \in Codes : generate_coupon_code(1, code)
    \/ check_code(1)
    \/ insert_coupon(1)
    \/ call_return(1)

FairIssue ==
    /\ \A code \in Codes : SF_vars(generate_coupon_code(1, code))
    /\ WF_vars(check_code(1))
    /\ WF_vars(insert_coupon(1))

SpecIssueLoop == Init /\ [][NextIssueLoop]_vars /\ FairIssue

(***************************************************************************)
(* Access to orders: the two callers and guests place orders, and every    *)
(* caller asks for every order and proof, its own or not.                  *)
(***************************************************************************)
NextAccess ==
    \/ Quiet /\ products = <<>> /\ create_product(2, None, 2)
    \/ MayOrder /\ products # <<>>
          /\ \E u \in Callers :
                create_order_begin(1, u, <<[product_id |-> 1, quantity |-> 1]>>)
    \/ MayOrder /\ products # <<>>
          /\ create_guest_order_begin(1, <<"1">>, <<"1">>)
    \/ OrderStep(1)
    \/ \E u \in Callers, o \in OrderIdInputs : get_order(u, o)
    \/ \E o \in OrderIdInputs : get_guest_order(o)
    \/ Len(payment_proofs) < MaxProofs
          /\ \E u \in Callers, o \in OrderIdInputs : add_payment_proof(u, o)
    \/ \E u \in Callers, o \in OrderIdInputs :
          get_order_payment_proofs_endpoint(u, o)
    \/ \E u \in Callers, k \in ProofIds : delete_payment_proof_endpoint(u, k)

SpecAccess == Init /\ [][NextAccess]_vars

(***************************************************************************)
(* Carts as the schemas admit them: OrderCreate.items is any list, empty   *)
(* included, and a quantity is any int; a guest quantity is any int        *)
(* literal.  One order at a time.                                          *)
(***************************************************************************)
QuantityInputs == {-1, 0, 1}

AnyCarts == SeqsUpTo([product_id : {1}, quantity : QuantityInputs], MaxLines)

GuestQuantities == {<<"1">>, <<"-", "1">>, <<"1", ",", "1">>}

NextCart ==
    \/ Quiet /\ products = <<>> /\ \E s \in StockInputs : create_product(2, None, s)
    \/ MayOrder /\ products # <<>>
          /\ \E c \in AnyCarts : create_order_begin(1, 1, c)
    \/ MayOrder /\ products # <<>>
          /\ \E q \in GuestQuantities : create_guest_order_begin(1, <<"1">>, q)
    \/ OrderStep(1)

SpecCart == Init /\ [][NextCart]_vars

(***************************************************************************)
(* Password reset: users register, ask for reset tokens and reset their    *)
(* passwords with any token, while time passes.                            *)
(***************************************************************************)
NextReset ==
    \/ Len(users) < MaxAccounts
          /\ \E e \in Emails, pw \in Passwords : register(e, pw)
    \/ \E e \in Emails, t \in Tokens : forgot_password(e, t)
    \/ \E t \in Tokens, pw \in Passwords : reset_password(t, pw)
    \/ Tick

SpecReset == Init /\ [][NextReset]_vars

(***************************************************************************)
(* Vocabulary of the properties.                                           *)
(***************************************************************************)
Done(p) == req[p].pc = "done"

Parsed(p) == req[p].result # "invalid_format"

\* Total quantity a cart orders of one product.
RECURSIVE QtyOf(_, _)
QtyOf(cart, pid) ==
    IF cart = <<>> THEN 0
    ELSE (IF cart[1].product_id = pid THEN cart[1].quantity ELSE 0)
         + QtyOf(Tail(cart), pid)

Missing(db, line) == line.product_id \notin DOMAIN db.products

OverStock(db, line) ==
    /\ line.product_id \in DOMAIN db.products
    /\ db.products[line.product_id].stock_quantity < line.quantity

ItemsOfOrder(o) == SelectSeq(order_items, LAMBDA it : it.order_id = o)

TotalPrices(its) == [k \in 1..Len(its) |-> its[k].total_price]

\* The price the specification gives a line: the discount price when one is
\* present, the original price otherwise.
StatedPrice(product) ==
    IF product.discount_price # None
    THEN product.discount_price[1]
    ELSE product.original_price

(***************************************************************************)
(* C1: in every reachable state every product's stock_quantity is >= 0.    *)
(***************************************************************************)
C1_StockNeverNegative ==
    \A pid \in DOMAIN products : products[pid].stock_quantity >= 0

(***************************************************************************)
(* C4: a cart with a line that fails validation (absent product, or stock  *)
(* below the quantity) ends in an error, and no Order, no OrderItem and no *)
(* stock change is ever written for it.                                    *)
(***************************************************************************)
C4_FailedCartWritesNothing ==
    \A p \in Procs :
        (/\ req[p].pc # "idle"
         /\ Parsed(p)
         /\ \E k \in DOMAIN req[p].cart :
               Missing(req[p].pre, req[p].cart[k])
               \/ OverStock(req[p].pre, req[p].cart[k]))
        => /\ Snapshot = req[p].pre
           /\ req[p].pc \in {"validate", "done"}
           /\ Done(p) => req[p].result \in {"not_found", "insufficient_stock"}

C4_Witness ==
    \E p \in Procs :
        /\ Done(p)
        /\ req[p].result \in {"not_found", "insufficient_stock"}
        /\ Len(req[p].cart) = 2
        /\ ~Missing(req[p].pre, req[p].cart[1])
        /\ ~OverStock(req[p].pre, req[p].cart[1])
        /\ Missing(req[p].pre, req[p].cart[2])

(***************************************************************************)
(* C5: after a successful order creation every product's stock_quantity is *)
(* its value before the call minus the total quantity the cart orders of   *)
(* it; products the cart does not name keep their stock.                   *)
(***************************************************************************)
C5_StockDecrementedByQuantity ==
    \A p \in Procs :
        (Done(p) /\ req[p].result = "ok")
        => /\ DOMAIN products = DOMAIN req[p].pre.products
           /\ \A pid \in DOMAIN products :
                 products[pid].stock_quantity =
                    req[p].pre.products[pid].stock_quantity
                    - QtyOf(req[p].cart, pid)

C5_Witness ==
    \E p \in Procs :
        /\ Done(p) /\ req[p].result = "ok"
        /\ Len(req[p].cart) = 2
        /\ req[p].cart[1].product_id = req[p].cart[2].product_id
        /\ Len(products) = 2

(***************************************************************************)
(* C6 as stated: a cart with a line whose quantity exceeds the product's   *)
(* stock raises the insufficient-stock error and changes nothing.          *)
(***************************************************************************)
C6_OverStockRaisesInsufficient ==
    \A p \in Procs :
        (/\ Done(p)
         /\ Parsed(p)
         /\ \E k \in DOMAIN req[p].cart : OverStock(req[p].pre, req[p].cart[k]))
        => /\ req[p].result = "insufficient_stock"
           /\ Snapshot = req[p].pre

(***************************************************************************)
(* C6 amended: such a cart raises an error and changes nothing; the error  *)
(* is insufficient-stock unless a line naming an absent product comes      *)
(* before the first over-stock line, and then it is not-found.             *)
(***************************************************************************)
C6_OverStockRaisesFirstError ==
    \A p \in Procs :
        LET cart == req[p].cart
            over == {k \in DOMAIN cart : OverStock(req[p].pre, cart[k])}
        IN  (Done(p) /\ Parsed(p) /\ over # {})
            => /\ Snapshot = req[p].pre
               /\ req[p].result =
                    IF \E j \in 1..(Min(over) - 1) : Missing(req[p].pre, cart[j])
                    THEN "not_found"
                    ELSE "insufficient_stock"

C6_Witness ==
    \E p \in Procs :
        /\ Done(p)
        /\ req[p].result = "insufficient_stock"
        /\ Len(req[p].cart) = 2
        /\ ~Missing(req[p].pre, req[p].cart[1])
        /\ ~OverStock(req[p].pre, req[p].cart[1])
        /\ OverStock(req[p].pre, req[p].cart[2])

(***************************************************************************)
(* C7: for every persisted order the total_price of its OrderItem rows     *)
(* sums to the order's total_amount.                                       *)
(***************************************************************************)
C7_ItemTotalsSumToOrderTotal ==
    \A o \in DOMAIN orders :
        SumSeq(TotalPrices(ItemsOfOrder(o))) = orders[o].total_amount

(***************************************************************************)
(* C8: every stored line has unit_price equal to the product's discount    *)
(* price when one is present (0 included) and to the original price        *)
(* otherwise, and total_price equal to unit_price times quantity.          *)
(***************************************************************************)
C8_UnitPriceIsDiscountWhenPresent ==
    \A p \in Procs :
        (Done(p) /\ req[p].result = "ok")
        => \A k \in DOMAIN order_items :
              order_items[k].order_id = req[p].order_id
              => /\ order_items[k].unit_price =
                      StatedPrice(req[p].pre.products[order_items[k].product_id])
                 /\ order_items[k].total_price =
                      order_items[k].unit_price * order_items[k].quantity

(***************************************************************************)
(* C9: no operation changes the unit_price or total_price of an existing   *)
(* OrderItem or the total_amount of an existing Order; in particular the   *)
(* catalog updates that change a product's prices do not.                  *)
(***************************************************************************)
C9_PriceSnapshotFrozen ==
    [][/\ \A k \in DOMAIN order_items :
             /\ k \in DOMAIN order_items'
             /\ order_items'[k] = order_items[k]
       /\ \A o \in DOMAIN orders :
             /\ o \in DOMAIN orders'
             /\ orders'[o].total_amount = orders[o].total_amount]_vars

C9_Witness ==
    /\ AllIdle
    /\ \E k \in DOMAIN order_items :
          order_items[k].unit_price
             # UnitPrice(products[order_items[k].product_id])

(***************************************************************************)
(* C2: of two order creations that both start on the last unit of a        *)
(* product's stock, at most one succeeds, and the stock ends at 0.         *)
(***************************************************************************)
LastUnit(p, pid) ==
    /\ pid \in DOMAIN req[p].pre.products
    /\ req[p].pre.products[pid].stock_quantity = 1
    /\ QtyOf(req[p].cart, pid) = 1

C2_LastUnitSoldOnce ==
    \A pid \in DOMAIN products, p \in Procs, q \in Procs :
        (p # q /\ LastUnit(p, pid) /\ LastUnit(q, pid))
        => /\ products[pid].stock_quantity >= 0
           /\ (Done(p) /\ Done(q))
              => /\ ~(req[p].result = "ok" /\ req[q].result = "ok")
                 /\ products[pid].stock_quantity = 0

(***************************************************************************)
(* C3: whenever the Order row of a request is in the store, so are the     *)
(* OrderItem rows of its cart.                                             *)
(***************************************************************************)
C3_OrderNeverWithoutItems ==
    \A p \in Procs :
        req[p].order_id \in DOMAIN orders
        => Len(ItemsOfOrder(req[p].order_id)) = Len(req[p].cart)

(***************************************************************************)
(* C10: create_guest_order ends with the invalid-format error, with no     *)
(* order and no stock change, exactly when the two strings have different  *)
(* numbers of comma-separated tokens or some token is not an integer;      *)
(* otherwise line i of the cart is (i-th product id, i-th quantity).       *)
(***************************************************************************)
Commas(s) == {k \in 1..Len(s) : s[k] = ","}

NumTokens(s) == Cardinality(Commas(s)) + 1

\* Position of the j-th comma; 0 before the first token, Len + 1 after the
\* last.
CommaAt(s, j) ==
    IF j = 0 THEN 0
    ELSE IF j = NumTokens(s) THEN Len(s) + 1
    ELSE CHOOSE k \in Commas(s) : Cardinality({m \in Commas(s) : m < k}) = j - 1

Token(s, j) == SubSeq(s, CommaAt(s, j - 1) + 1, CommaAt(s, j) - 1)

\* Blanks, an optional sign, one or more digits, blanks.
IsInteger(t) ==
    \E a \in 1..Len(t), b \in 1..Len(t) :
        /\ a <= b
        /\ \A k \in 1..Len(t) : (k < a \/ k > b) => t[k] = " "
        /\ t[a] \in Digits \cup {"-"}
        /\ t[a] = "-" => a < b
        /\ \A k \in (a + 1)..b : t[k] \in Digits

RECURSIVE Pow10(_)
Pow10(n) == IF n = 0 THEN 1 ELSE 10 * Pow10(n - 1)

\* Sum of digit * 10^(distance to the last digit) over the digit positions S.
RECURSIVE PlaceSum(_, _, _)
PlaceSum(t, S, last) ==
    IF S = {} THEN 0
    ELSE LET k == CHOOSE y \in S : TRUE
         IN  DigitVal(t[k]) * Pow10(last - k) + PlaceSum(t, S \ {k}, last)

IntegerValue(t) ==
    LET digits == {k \in 1..Len(t) : t[k] \in Digits}
        magnitude == PlaceSum(t, digits, Max(digits))
    IN  IF \E k \in 1..Len(t) : t[k] = "-" THEN 0 - magnitude ELSE magnitude

WellFormed(product_ids, quantities) ==
    /\ NumTokens(product_ids) = NumTokens(quantities)
    /\ \A j \in 1..NumTokens(product_ids) : IsInteger(Token(product_ids, j))
    /\ \A j \in 1..NumTokens(quantities) : IsInteger(Token(quantities, j))

C10_GuestCartParsing ==
    \A p \in Procs :
        (req[p].op = "create_guest_order")
        => IF WellFormed(req[p].product_ids, req[p].quantities)
           THEN /\ Parsed(p)
                /\ Len(req[p].cart) = NumTokens(req[p].product_ids)
                /\ \A j \in 1..Len(req[p].cart) :
                      req[p].cart[j] =
                         [product_id |->
                            IntegerValue(Token(req[p].product_ids, j)),
                          quantity |->
                            IntegerValue(Token(req[p].quantities, j))]
           ELSE /\ Done(p)
                /\ req[p].result = "invalid_format"
                /\ Snapshot = req[p].pre

C10_Witness ==
    \E p \in Procs :
        /\ Done(p)
        /\ req[p].result = "invalid_format"
        /\ NumTokens(req[p].product_ids) = 2
        /\ NumTokens(req[p].quantities) = 1
        /\ \A j \in 1..2 : IsInteger(Token(req[p].product_ids, j))
        /\ IsInteger(Token(req[p].quantities, 1))
        /\ Len(products) > 0

(***************************************************************************)
(* C11: an order placed by create_guest_order has no user (user_id is      *)
(* None), an order placed by create_order has the caller as its user, and  *)
(* no operation changes the user_id of an order once it is stored.         *)
(***************************************************************************)
C11_OrderOwnerFixed ==
    /\ [](\A p \in Procs :
            req[p].order_id \in DOMAIN orders
            => orders[req[p].order_id].user_id =
                 IF req[p].op = "create_guest_order" THEN None
                 ELSE req[p].user_id)
    /\ [][\A o \in DOMAIN orders :
            /\ o \in DOMAIN orders'
            /\ orders'[o].user_id = orders[o].user_id]_vars

C11_Witness ==
    \E o \in DOMAIN orders :
        /\ orders[o].user_id = <<2>>
        /\ orders[o].status = "cancelled"
        /\ Len(ItemsOfOrder(o)) = 2

(***************************************************************************)
(* C12: in every reachable state every coupon has                          *)
(* 0 <= used_count <= max_uses.                                            *)
(***************************************************************************)
C12_UsedCountWithinMaxUses ==
    \A k \in DOMAIN coupons :
        /\ 0 <= coupons[k].used_count
        /\ coupons[k].used_count <= coupons[k].max_uses

(***************************************************************************)
(* C13: in every reachable state a coupon whose used_count has reached its *)
(* max_uses is not active, from the moment it is issued.                   *)
(***************************************************************************)
C13_UsedUpCouponInactive ==
    \A k \in DOMAIN coupons :
        coupons[k].used_count >= coupons[k].max_uses => ~coupons[k].is_active

(***************************************************************************)
(* C16 as stated: use_coupon on an existing coupon appends exactly one     *)
(* usage row with its arguments, adds 1 to the coupon's used_count and     *)
(* clears is_active when used_count now equals max_uses; nothing of this   *)
(* is in the store before all of it is.                                    *)
(***************************************************************************)
Redeemed(c) ==
    LET before == c.pre.coupons[c.coupon_id]
        after == coupons[c.coupon_id]
    IN  /\ coupon_usages = Append(c.pre.coupon_usages, UsageRow(c))
        /\ after.used_count = before.used_count + 1
        /\ after.used_count = after.max_uses => ~after.is_active
        /\ after.used_count < after.max_uses => after.is_active = before.is_active
        /\ \A k \in DOMAIN coupons :
              /\ k # c.coupon_id => coupons[k] = c.pre.coupons[k]
              /\ [coupons[k] EXCEPT !.used_count = 0, !.is_active = TRUE]
                 = [c.pre.coupons[k] EXCEPT !.used_count = 0, !.is_active = TRUE]

C16_UseCouponEffects ==
    \A p \in Procs :
        (call[p].op = "use_coupon" /\ call[p].coupon_id \in DOMAIN call[p].pre.coupons)
        => /\ call[p].pc = "commit" => Ledger = call[p].pre
           /\ call[p].pc = "done" => Redeemed(call[p])

(***************************************************************************)
(* C16 amended: use_coupon on an existing coupon and an existing order     *)
(* does all of the above; for an order_id that names no order the store    *)
(* rejects the usage row and nothing is written.                           *)
(***************************************************************************)
C16_UseCouponEffectsForOrder ==
    \A p \in Procs :
        (call[p].op = "use_coupon" /\ call[p].coupon_id \in DOMAIN call[p].pre.coupons)
        => /\ call[p].pc = "commit" => Ledger = call[p].pre
           /\ call[p].pc = "done" =>
                IF call[p].order_id \in DOMAIN orders
                THEN call[p].result = "ok" /\ Redeemed(call[p])
                ELSE call[p].result = "integrity_error" /\ Ledger = call[p].pre

C16_Witness ==
    \E p \in Procs :
        /\ call[p].op = "use_coupon" /\ call[p].pc = "done"
        /\ call[p].result = "ok"
        /\ Len(coupons) = 2
        /\ coupons[call[p].coupon_id].max_uses = 2
        /\ coupons[call[p].coupon_id].used_count = 2
        /\ ~coupons[call[p].coupon_id].is_active

(***************************************************************************)
(* C17: two use_coupon calls for one coupon that both start from the same  *)
(* used_count leave used_count at that value plus 2, and the coupon        *)
(* inactive when that has reached max_uses.                                *)
(***************************************************************************)
C17_NoLostRedemption ==
    \A p \in Procs, q \in Procs :
        (/\ p # q
         /\ call[p].op = "use_coupon" /\ call[q].op = "use_coupon"
         /\ call[p].result = "ok" /\ call[q].result = "ok"
         /\ call[p].coupon_id = call[q].coupon_id
         /\ call[p].pre.coupons = call[q].pre.coupons)
        => LET c == call[p].coupon_id
           IN  /\ coupons[c].used_count = call[p].pre.coupons[c].used_count + 2
               /\ coupons[c].used_count >= coupons[c].max_uses
                  => ~coupons[c].is_active

(***************************************************************************)
(* C18: once a coupon has been redeemed max_uses times it is inactive and  *)
(* validate_coupon returns not-valid for its code, whoever asks, in that   *)
(* state and in every later one.                                           *)
(***************************************************************************)
Redemptions(k) ==
    Cardinality({j \in DOMAIN coupon_usages : coupon_usages[j].coupon_id = k})

C18_SpentCouponNeverValid ==
    \A k \in DOMAIN coupons :
        Redemptions(k) >= coupons[k].max_uses
        => /\ ~coupons[k].is_active
           /\ \A u \in Callers : validate_coupon(coupons[k].code, u) = None

(***************************************************************************)
(* C19: no two coupons have the same code, also when two                   *)
(* create_coupon_code calls draw the same code at the same time; a call    *)
(* that returns a coupon returns one whose code no other coupon has.       *)
(***************************************************************************)
C19_CouponCodesUnique ==
    /\ \A j \in DOMAIN coupons, k \in DOMAIN coupons :
          coupons[j].code = coupons[k].code => j = k
    /\ \A p \in Procs :
          (call[p].op = "create_coupon_code" /\ call[p].result = "ok")
          => /\ call[p].response[1] \in DOMAIN coupons
             /\ coupons[call[p].response[1]].code = call[p].code

C19_Witness ==
    \E p \in Procs, q \in Procs :
        /\ call[p].op = "create_coupon_code" /\ call[p].result = "ok"
        /\ call[q].op = "create_coupon_code"
        /\ call[q].result = "integrity_error"
        /\ call[q].code = call[p].code

(***************************************************************************)
(* C14: validate_coupon(code, user_id) returns the coupon exactly when a   *)
(* coupon with the code exists, belongs to user_id, is active, has no      *)
(* expiry or one in the future, and has used_count < max_uses; otherwise   *)
(* it returns not-valid.  It changes nothing.                              *)
(***************************************************************************)
Validated(p) == call[p].op = "validate_coupon" /\ call[p].pc = "done"

StatedValid(c) ==
    \E k \in DOMAIN c.pre.coupons :
        LET coupon == c.pre.coupons[k]
        IN  /\ coupon.code = c.code
            /\ coupon.user_id = c.user_id
            /\ coupon.is_active
            /\ coupon.expires_at = None \/ coupon.expires_at[1] > c.at
            /\ coupon.used_count < coupon.max_uses

C14_ValidIffAllConditions ==
    \A p \in Procs :
        Validated(p)
        => /\ call[p].result = "valid" <=> StatedValid(call[p])
           /\ call[p].result = "valid"
              => /\ call[p].response[1].valid
                 /\ call[p].response[1].coupon[1].code = call[p].code
           /\ call[p].result \in {"valid", "not_valid"}
           /\ Ledger = call[p].pre

(***************************************************************************)
(* C15: two validations that fail for different reasons (no such code,     *)
(* another user's coupon, inactive, expired, used up) get the same         *)
(* response, which says nothing but "not valid".                           *)
(***************************************************************************)
FailReason(c) ==
    LET ids == {k \in DOMAIN c.pre.coupons : c.pre.coupons[k].code = c.code}
    IN  IF ids = {} THEN "absent"
        ELSE LET coupon == c.pre.coupons[CHOOSE k \in ids : TRUE]
             IN  IF coupon.user_id # c.user_id THEN "not_owner"
                 ELSE IF ~coupon.is_active THEN "inactive"
                 ELSE IF coupon.expires_at # None /\ coupon.expires_at[1] < c.at
                 THEN "expired"
                 ELSE IF coupon.used_count >= coupon.max_uses THEN "used_up"
                 ELSE "none"

C15_FailureResponseUniform ==
    \A p \in Procs, q \in Procs :
        (/\ Validated(p) /\ Validated(q)
         /\ FailReason(call[p]) # "none" /\ FailReason(call[q]) # "none")
        => /\ call[p].response = call[q].response
           /\ ~call[p].response[1].valid
           /\ call[p].response[1].coupon = None

C15_Witness ==
    \E p \in Procs, q \in Procs :
        /\ Validated(p) /\ Validated(q)
        /\ FailReason(call[p]) = "absent"
        /\ FailReason(call[q]) = "not_owner"

(***************************************************************************)
(* C20: whenever no vote call is under way, every design's total_votes is  *)
(* the number of its upvote rows minus the number of its downvote rows.    *)
(***************************************************************************)
C20_TotalVotesIsUpMinusDown ==
    NoCallUnderWay
    => \A d \in DOMAIN designs :
          designs[d].total_votes = VoteCount(d, "upvote") - VoteCount(d, "downvote")

(***************************************************************************)
(* C21: under sequential execution there is at most one vote row per       *)
(* (design, user) pair; a create_vote by a user who has a vote on the      *)
(* design overwrites the vote_type of that row and adds no row.            *)
(***************************************************************************)
VotesOf(rows, design_id, user_id) ==
    {k \in DOMAIN rows :
        /\ rows[k] # None
        /\ rows[k][1].design_id = design_id
        /\ rows[k][1].user_id = user_id}

C21_OneVotePerPair ==
    /\ \A d \in DOMAIN designs, u \in Voters :
          Cardinality(VotesOf(design_votes, d, u)) <= 1
    /\ \A p \in Procs :
          LET c == call[p]
              had == VotesOf(c.pre.design_votes, c.design_id, c.user_id)
          IN  (c.op = "create_vote" /\ c.pc = "done" /\ had # {})
              => /\ VotesOf(design_votes, c.design_id, c.user_id) = had
                 /\ Len(design_votes) = Len(c.pre.design_votes)
                 /\ \A k \in had : design_votes[k][1].vote_type = c.vote_type

C21_Witness ==
    \E p \in Procs :
        LET c == call[p]
            had == VotesOf(c.pre.design_votes, c.design_id, c.user_id)
        IN  /\ c.op = "create_vote" /\ c.pc = "done"
            /\ \E k \in had : c.pre.design_votes[k][1].vote_type # c.vote_type
            /\ Len(design_votes) = 2

ReviewsOf(rows, user_id, product_id) ==
    {k \in DOMAIN rows :
       /\ rows[k] # None
       /\ rows[k][1].user_id = user_id
       /\ rows[k][1].product_id = product_id}

(***************************************************************************)
(* C22: per-user uniqueness under concurrency.  In every interleaving of   *)
(* two create_vote calls, or of two create_review calls, there is at most  *)
(* one vote row per (design, user) pair and at most one review row per     *)
(* (user, product) pair.                                                   *)
(***************************************************************************)
C22_OnePerPairConcurrently ==
    /\ \A d \in DesignIds, u \in Voters :
          Cardinality(VotesOf(design_votes, d, u)) <= 1
    /\ \A u \in Reviewers, pr \in ProductIds :
          Cardinality(ReviewsOf(reviews, u, pr)) <= 1

(***************************************************************************)
(* C23: under sequential execution there is at most one review row per     *)
(* (user, product) pair, and a create_review by a user who has already     *)
(* reviewed the product ends with the already-reviewed error and leaves    *)
(* the reviews as they were.                                               *)
(***************************************************************************)
C23_DuplicateReviewRejected ==
    /\ \A u \in Reviewers, pr \in ProductIds :
          Cardinality(ReviewsOf(reviews, u, pr)) <= 1
    /\ \A p \in Procs :
          LET c == call[p]
          IN  (/\ c.op = "create_review"
               /\ c.pc = "done"
               /\ ReviewsOf(c.pre.reviews, c.user_id, c.product_id) # {})
              => /\ c.result = "already_reviewed"
                 /\ reviews = c.pre.reviews

C23_Witness ==
    \E p \in Procs :
        /\ call[p].op = "create_review"
        /\ call[p].pc = "done"
        /\ call[p].result = "already_reviewed"
        /\ Len(reviews) = 2

(***************************************************************************)
(* C24: the status of every order is one of the five valid statuses.  A    *)
(* new order starts as pending; a status update that names an existing     *)
(* order and one of the five values is accepted whatever the current       *)
(* status is and writes that value; any other update request (absent       *)
(* order, missing status, other string) is rejected and changes no order.  *)
(***************************************************************************)
StatusRequest == reply' # reply /\ reply'.op = "update_order_status"

C24_StatusOneOfFive ==
    /\ [](\A o \in DOMAIN orders : orders[o].status \in valid_statuses)
    /\ [][Len(orders') > Len(orders)
             => orders'[Len(orders')].status = "pending"]_vars
    /\ [][StatusRequest =>
            LET a == reply'.args
            IN  IF a.order_id \in DOMAIN orders /\ a.status \in valid_statuses
                THEN /\ reply'.status_code = 200
                     /\ orders' = [orders EXCEPT ![a.order_id].status = a.status]
                ELSE /\ reply'.status_code \in {400, 404}
                     /\ orders' = orders]_vars

C24_Witness ==
    /\ reply.op = "update_order_status"
    /\ reply.status_code = 400
    /\ reply.args.status = "refunded"
    /\ orders[reply.args.order_id].status = "shipped"

InLoop(p) ==
    call[p].op = "create_coupon_code" /\ call[p].pc \in {"generate", "check"}

SomeCodeFree == \E code \in Codes : get_coupon_by_code(code) = None

(***************************************************************************)
(* C25: create_coupon_code terminates when it can.  Under a fair generator *)
(* a call that is in its retry loop while some code is free leads to the   *)
(* call returning its coupon; while every code is taken a call in the loop *)
(* stays in the loop.                                                      *)
(***************************************************************************)
C25_IssueTerminatesIfCodeFree ==
    /\ (InLoop(1) /\ SomeCodeFree) ~> (call[1].pc = "done" /\ call[1].result = "ok")
    /\ [][(InLoop(1) /\ ~SomeCodeFree) => InLoop(1)']_vars

\* A call that has drawn a taken code and draws again while a code is free.
C25_Witness ==
    /\ InLoop(1)
    /\ call[1].pc = "generate"
    /\ call[1].code # 0
    /\ SomeCodeFree

OwnerOps ==
    {"get_order", "add_payment_proof", "get_order_payment_proofs",
     "delete_payment_proof"}

\* The order a request of OwnerOps is about, if it exists.
OrderOf(r) ==
    IF r.op = "delete_payment_proof"
    THEN IF r.args.proof_id \in DOMAIN payment_proofs
            /\ payment_proofs[r.args.proof_id] # None
         THEN <<payment_proofs[r.args.proof_id][1].order_id>>
         ELSE None
    ELSE IF r.args.order_id \in DOMAIN orders
         THEN <<r.args.order_id>>
         ELSE None

BadCart(cart) == cart = <<>> \/ \E k \in DOMAIN cart : cart[k].quantity <= 0

(***************************************************************************)
(* C27: when an order creation has ended, every stored order has at least  *)
(* one OrderItem and every OrderItem has a quantity above 0; a call with   *)
(* an empty cart or with a line of quantity 0 or less has stored nothing.  *)
(***************************************************************************)
C27_OrdersHaveItemsOfPositiveQuantity ==
    /\ \A k \in DOMAIN order_items : order_items[k].quantity > 0
    /\ \A p \in Procs :
          Done(p) =>
             /\ \A o \in DOMAIN orders : ItemsOfOrder(o) # <<>>
             /\ BadCart(req[p].cart) => Snapshot = req[p].pre

(***************************************************************************)
(* C28: when an order creation has ended, no product has more stock than   *)
(* it had when the call began, and no order has a negative total_amount.   *)
(***************************************************************************)
C28_StockNeverGrowsTotalNeverNegative ==
    /\ \A o \in DOMAIN orders : orders[o].total_amount >= 0
    /\ \A p \in Procs :
          Done(p) =>
             \A pid \in DOMAIN req[p].pre.products :
                products[pid].stock_quantity
                   <= req[p].pre.products[pid].stock_quantity

(***************************************************************************)
(* C29: the usage ledger is append-only and agrees with the counters.  In  *)
(* every reachable state the used_count of each coupon is the number of    *)
(* CouponUsage rows of that coupon and every CouponUsage row names an      *)
(* existing coupon; no step changes or removes a CouponUsage row.          *)
(***************************************************************************)
C29_UsageLedgerConsistent ==
    /\ [](\A k \in DOMAIN coupons : coupons[k].used_count = Redemptions(k))
    /\ [](\A j \in DOMAIN coupon_usages :
             coupon_usages[j].coupon_id \in DOMAIN coupons)
    /\ [][/\ Len(coupon_usages') >= Len(coupon_usages)
          /\ \A j \in DOMAIN coupon_usages :
                coupon_usages'[j] = coupon_usages[j]]_vars

(***************************************************************************)
(* C30: a password reset token is single-use.  A reset_password that       *)
(* succeeds leaves no user holding its token, and a reset_password with    *)
(* the same token that follows it is answered 400 ("Invalid or expired     *)
(* reset token") and changes no user.                                      *)
(***************************************************************************)
C30_ResetTokenSingleUse ==
    /\ [][(reply' # reply /\ reply'.op = "reset_password"
              /\ reply'.status_code = 200)
            => \A u \in DOMAIN users' :
                  /\ users'[u].reset_token # <<reply'.args.token>>
                  /\ \/ users'[u] = users[u]
                     \/ /\ users'[u].reset_token = None
                        /\ users'[u].reset_token_expires = None]_vars
    /\ [][(/\ reply.op = "reset_password"
           /\ reply.status_code = 200
           /\ reply' # reply
           /\ reply'.op = "reset_password"
           /\ reply'.args.token = reply.args.token)
            => /\ reply'.status_code = 400
               /\ users' = users]_vars
====
